---------------------------- MODULE Spec2Model ----------------------------
(***************************************************************************)
(* Model of generate_qr_code_for_link (src/generate_qr_code.py): the QR    *)
(* symbol is rendered, an optional logo is loaded, downscaled, centred and *)
(* pasted over a white backing box, and the image is saved.                *)
(*                                                                         *)
(* An image is a record [size, layers]: its pixel size and the sequence of *)
(* rectangles pasted onto it so far, in paste order.  The freshly rendered *)
(* symbol has no layers.  Floats of the source are modelled exactly as     *)
(* rationals: logo_size is LogoPct/100 and 1.05 is 105/100; on the ranges  *)
(* explored here int() of the float product equals the exact floor.        *)
(***************************************************************************)
EXTENDS Integers, Sequences, FiniteSets, TLC

\* ---- bounds of the explored inputs ----
MaxBoxSize == 3
MaxVersion == 2
MaxBorder  == 1
MaxLogoDim == 24

BoxSizes   == (0 - 1) .. MaxBoxSize        \* --box_size, any int is accepted by argparse
Versions   == 1 .. MaxVersion              \* --version
Borders    == 0 .. MaxBorder               \* --border
LogoDims   == 1 .. MaxLogoDim              \* width / height of the logo file
LogoPcts   == {1, 25, 95, 96, 100}           \* --logo_size in (0,1], as a percentage
LogoPaths  == {"None", "readable", "unreadable"}

VARIABLES
    pc,             \* position in generate_qr_code_for_link
    link,           \* smallest QR version that can hold the payload
    version, box_size, border, logo_path, logo_size,   \* arguments
    symbol,         \* image returned by qr.make_image(...).convert("RGBA")
    img,            \* the working image
    logo_file,      \* pixel size of the image stored at logo_path, as read by Image.open
    logo,           \* size of the logo image, <<0,0>> before it is loaded
    logo_max_size,
    position,       \* (x_center, y_center)
    bbox,           \* (bbox_width, bbox_height)
    bbox_position,
    file,           \* content of `filename` on disk
    error           \* exception that left the function, "none" otherwise

vars == << pc, link, version, box_size, border, logo_path, logo_size, symbol,
           img, logo_file, logo, logo_max_size, position, bbox, bbox_position,
           file, error >>

args == << link, version, box_size, border, logo_path, logo_size >>

NoImage == [size |-> <<0, 0>>, layers |-> <<>>]
NoFile  == [written |-> FALSE, image |-> NoImage]

\* ---- pure helpers ----

Min(a, b) == IF a <= b THEN a ELSE b
Max(a, b) == IF a >= b THEN a ELSE b
Abs(a)    == IF a >= 0 THEN a ELSE 0 - a

\* math.floor / math.ceil of the rational num/den, den > 0
Floor(num, den) == num \div den
Ceil(num, den)  == 0 - ((0 - num) \div den)

\* qrcode: a version-v symbol has 4*v + 17 modules per side; the rendered
\* image is (modules + 2*border) * box_size pixels square.
SymbolDim(v, brd, bs) == ((4 * v + 17) + 2 * brd) * bs

\* qr.make(fit=True): the smallest version >= the requested one that holds the data
BestFit(v, need) == Max(v, need)

\* int(min(qr_width, qr_height) * logo_size), logo_size = pct/100
LogoMaxSize(qw, qh, pct) == (Min(qw, qh) * pct) \div 100

\* PIL round_aspect: max(min(floor, ceil, key=key), 1); kf and kc are the keys
\* of floor and ceil.  On equal keys min() keeps the floor in exact arithmetic,
\* but the float keys may order either way, hence `tie`.
RoundAspect(f, c, kf, kc, tie) ==
    Max(IF kf < kc THEN f ELSE IF kc < kf THEN c ELSE IF tie THEN c ELSE f, 1)

\* PIL Image.thumbnail((cap, cap)) on a w x h image: when the image does not
\* already fit, x / y is evaluated with y = cap and raises for cap = 0.
ThumbnailRaises(w, h, cap) == ~(cap >= w /\ cap >= h) /\ cap = 0

\* Thumbnail without the early return for an image that already fits: the
\* image is always resized so that it just fits the cap (small logos grow).
ThumbnailResize(w, h, cap, tie) ==
    IF h >= w
    THEN LET f == Floor(cap * w, h)
             c == Ceil(cap * w, h)
         IN  << RoundAspect(f, c, Abs(w * cap - f * h), Abs(w * cap - c * h), tie), cap >>
    ELSE LET f == Floor(cap * h, w)
             c == Ceil(cap * h, w)
             kf == IF f = 0 THEN 0 ELSE Abs(w * f - cap * h) * c
             kc == IF f = 0 THEN 1 ELSE Abs(w * c - cap * h) * f
         IN  << cap, RoundAspect(f, c, kf, kc, tie) >>

\* PIL Image.thumbnail((cap, cap)) on a w x h image, cap >= 1: the new size.
Thumbnail(w, h, cap, tie) ==
    IF cap >= w /\ cap >= h THEN <<w, h>>
    ELSE IF h >= w      \* x / y >= aspect, with x = y = cap
    THEN LET f == Floor(cap * w, h)
             c == Ceil(cap * w, h)
         IN  << RoundAspect(f, c, Abs(w * cap - f * h), Abs(w * cap - c * h), tie), cap >>
    ELSE LET f == Floor(cap * h, w)
             c == Ceil(cap * h, w)
             kf == IF f = 0 THEN 0 ELSE Abs(w * f - cap * h) * c
             kc == IF f = 0 THEN 1 ELSE Abs(w * c - cap * h) * f
         IN  << cap, RoundAspect(f, c, kf, kc, tie) >>

\* Centering that rounds the half up instead of down
CenterCeil(outer, inner) == (outer - inner + 1) \div 2

\* (outer - inner) // 2
Center(outer, inner) == (outer - inner) \div 2

\* int(1.05 * d)
Margin(d) == (105 * d) \div 100

\* Variants of the box dimension: the margin plus one box without the floor
\* division; the logo dimension floored to the box grid with no margin; and
\* the margin rounded with a true ceiling.
BboxDimUnaligned(d, bs) == Margin(d) + bs
BboxDimNoMargin(d, bs)  == (d \div bs) * bs
BboxDimCeil(d, bs)      == ((Margin(d) + bs - 1) \div bs) * bs

\* ((int(1.05*d) // box_size) + 1) * box_size
BboxDim(d, bs) == ((Margin(d) \div bs) + 1) * bs

\* Image.paste(src, pos, mask): a layer of kind `kind` over rectangle pos + size
Paste(im, kind, pos, size) ==
    [im EXCEPT !.layers = Append(@, [kind |-> kind, pos |-> pos, size |-> size])]

\* ---- steps of generate_qr_code_for_link ----

Init ==
    /\ pc = "start"
    /\ link \in Versions
    /\ version \in Versions
    /\ box_size \in BoxSizes
    /\ border \in Borders
    /\ logo_path \in LogoPaths
    /\ logo_size \in LogoPcts
    /\ symbol = NoImage
    /\ img = NoImage
    /\ logo_file = <<0, 0>>
    /\ logo = <<0, 0>>
    /\ logo_max_size = 0
    /\ position = <<0, 0>>
    /\ bbox = <<0, 0>>
    /\ bbox_position = <<0, 0>>
    /\ file = NoFile
    /\ error = "none"

\* A symbol constructor that accepts any box size
BoxSizeUnchecked(bs) == TRUE

\* The logo branch with its test inverted
LogoBranchInverted(lp) == IF lp = "None" THEN "open" ELSE "save"

\* qrcode.QRCode(...) rejects a box size <= 0 with ValueError
BoxSizeOk(bs) == bs > 0

\* line 44: the logo branch is entered only when a logo path is given
LogoBranch(lp) == IF lp # "None" THEN "open" ELSE "save"

\* lines 33-41: build the symbol
MakeImage ==
    /\ pc = "start"
    /\ IF BoxSizeOk(box_size)
       THEN LET d == SymbolDim(BestFit(version, link), border, box_size)
                s == [size |-> <<d, d>>, layers |-> <<>>]
            IN  /\ symbol' = s
                /\ img' = s
                /\ pc' = LogoBranch(logo_path)
                /\ error' = error
       ELSE /\ pc' = "failed"
            /\ error' = "ValueError"
            /\ UNCHANGED << symbol, img >>
    /\ UNCHANGED << args, logo_file, logo, logo_max_size, position, bbox, bbox_position, file >>

\* line 45: Image.open(logo_path).convert("RGBA")
OpenLogo ==
    /\ pc = "open"
    /\ logo_path = "readable"
    /\ \E w \in LogoDims, h \in LogoDims :
          /\ logo_file' = <<w, h>>
          /\ logo' = <<w, h>>
    /\ pc' = "thumbnail"
    /\ UNCHANGED << args, symbol, img, logo_max_size, position, bbox,
                    bbox_position, file, error >>

\* A failed load that is swallowed: the function goes on to save the symbol
OpenLogoSwallowed ==
    /\ pc = "open"
    /\ logo_path = "unreadable"
    /\ pc' = "save"
    /\ UNCHANGED << args, logo_file, symbol, img, logo, logo_max_size, position, bbox,
                    bbox_position, file, error >>

\* line 45 raising (missing, unreadable or not an image)
OpenLogoFails ==
    /\ pc = "open"
    /\ logo_path = "unreadable"
    /\ pc' = "failed"
    /\ error' = "OSError"
    /\ UNCHANGED << args, logo_file, symbol, img, logo, logo_max_size, position, bbox,
                    bbox_position, file >>

\* lines 46-49: cap and downscale the logo
ThumbnailLogo ==
    /\ pc = "thumbnail"
    /\ LET cap == LogoMaxSize(img.size[1], img.size[2], logo_size)
       IN  /\ logo_max_size' = cap
           /\ IF ThumbnailRaises(logo[1], logo[2], cap)
              THEN /\ logo' = logo
                   /\ pc' = "failed"
                   /\ error' = "ZeroDivisionError"
              ELSE /\ \E tie \in BOOLEAN :
                          logo' = Thumbnail(logo[1], logo[2], cap, tie)
                   /\ pc' = "center"
                   /\ error' = error
    /\ UNCHANGED << args, logo_file, symbol, img, position, bbox, bbox_position, file >>

\* lines 50-52
CenterLogo ==
    /\ pc = "center"
    /\ position' = << Center(img.size[1], logo[1]), Center(img.size[2], logo[2]) >>
    /\ pc' = "bbox"
    /\ UNCHANGED << args, logo_file, symbol, img, logo, logo_max_size, bbox, bbox_position,
                    file, error >>

\* lines 56-60
MakeBbox ==
    /\ pc = "bbox"
    /\ LET bw == BboxDim(logo[1], box_size)
           bh == BboxDim(logo[2], box_size)
       IN  /\ bbox' = <<bw, bh>>
           /\ bbox_position' = << Center(img.size[1], bw), Center(img.size[2], bh) >>
    /\ pc' = "paste_bbox"
    /\ UNCHANGED << args, logo_file, symbol, img, logo, logo_max_size, position, file, error >>

\* line 61
PasteBbox ==
    /\ pc = "paste_bbox"
    /\ img' = Paste(img, "bbox", bbox_position, bbox)
    /\ pc' = "paste_logo"
    /\ UNCHANGED << args, logo_file, symbol, logo, logo_max_size, position, bbox,
                    bbox_position, file, error >>

\* line 64
PasteLogo ==
    /\ pc = "paste_logo"
    /\ img' = Paste(img, "logo", position, logo)
    /\ pc' = "save"
    /\ UNCHANGED << args, logo_file, symbol, logo, logo_max_size, position, bbox,
                    bbox_position, file, error >>

\* line 66
Save ==
    /\ pc = "save"
    /\ file' = [written |-> TRUE, image |-> img]
    /\ pc' = "done"
    /\ UNCHANGED << args, logo_file, symbol, img, logo, logo_max_size, position, bbox,
                    bbox_position, error >>

Next ==
    \/ MakeImage
    \/ OpenLogo
    \/ OpenLogoFails
    \/ ThumbnailLogo
    \/ CenterLogo
    \/ MakeBbox
    \/ PasteBbox
    \/ PasteLogo
    \/ Save

Spec == Init /\ [][Next]_vars

\* ---- properties ----

Axes == {1, 2}

\* the logo branch was entered and the logo loaded
HasLogo == logo_path = "readable"

\* line 49 has been passed
Thumbnailed == HasLogo /\ pc \in {"center", "bbox", "paste_bbox", "paste_logo", "save", "done"}

\* line 59 has been passed
BboxMade == HasLogo /\ pc \in {"paste_bbox", "paste_logo", "save", "done"}

\* C1: with a logo and box_size > 0, bbox_width and bbox_height are each a
\* positive integer multiple of box_size, whatever the downscaled logo size.
C1_PlateIsMultipleOfBoxSize ==
    (BboxMade /\ box_size > 0) =>
        \A a \in Axes : \E k \in 1 .. bbox[a] : bbox[a] = k * box_size

C1_Witness ==
    /\ BboxMade
    /\ box_size > 1
    /\ logo # logo_file
    /\ bbox[1] > bbox[2]
    /\ bbox[2] > box_size

\* C2: the plate's top-left offset (symbol_dim - plate_dim) // 2 is a multiple
\* of box_size on each axis whenever the symbol's sides are multiples of box_size.
C2_PlateOffsetOnModuleBoundary ==
    (BboxMade /\ box_size > 0 /\ \A a \in Axes : img.size[a] % box_size = 0) =>
        \A a \in Axes : bbox_position[a] % box_size = 0

\* C3: after the downscale the logo's longer edge is at most
\* floor(min(symbol_w, symbol_h) * logo_size), no side exceeds the side of the
\* logo file, and a logo within the cap on both sides is unchanged; a 500x200
\* logo with cap 187 becomes 187x75.
C3_LogoWithinCapNeverUpscaled ==
    /\ Thumbnailed =>
         LET cap == (Min(symbol.size[1], symbol.size[2]) * logo_size) \div 100
         IN  /\ Max(logo[1], logo[2]) <= cap
             /\ \A a \in Axes : logo[a] <= logo_file[a]
             /\ (logo_file[1] <= cap /\ logo_file[2] <= cap) => logo = logo_file
    /\ \A t \in BOOLEAN : Thumbnail(500, 200, 187, t) = <<187, 75>>

C3_Witness ==
    /\ Thumbnailed
    /\ logo_file[1] > logo_max_size
    /\ logo[1] = logo_max_size
    /\ logo[2] < logo_file[2]
    /\ logo[2] > 1

\* C4: with box_size <= 0 the call fails when the symbol is constructed, with
\* the invalid-value error, before the logo is loaded or anything is pasted,
\* and the output file is never written.
C4_NonPositiveBoxSizeFailsFirst ==
    box_size <= 0 =>
        /\ pc \in {"start", "failed"}
        /\ pc = "failed" => error = "ValueError"
        /\ logo_file = <<0, 0>>
        /\ logo = <<0, 0>>
        /\ img = NoImage
        /\ ~file.written

C4_Witness ==
    /\ box_size = 0
    /\ logo_path = "readable"
    /\ pc = "failed"
    /\ error = "ValueError"
    /\ ~file.written

\* C5: a failure of the logo load or of any step before the save leaves the
\* function with the error and without writing the file; the file is written
\* only after both pastes when a logo is given.
C5_NoOutputOnFailure ==
    /\ error # "none" => (pc = "failed" /\ ~file.written)
    /\ pc = "failed" => error # "none"
    /\ logo_path = "unreadable" => (pc \in {"start", "open", "failed"} /\ ~file.written)
    /\ (file.written /\ logo_path # "None") =>
          /\ Len(file.image.layers) = 2
          /\ file.image.layers[1].kind = "bbox"
          /\ file.image.layers[2].kind = "logo"

C5_Witness ==
    /\ logo_path = "unreadable"
    /\ box_size > 0
    /\ pc = "failed"
    /\ error = "OSError"
    /\ ~file.written

\* C6: without a logo path the logo branch is never entered, nothing is pasted
\* and the saved image is the symbol the encoder returned, for every
\* logo_size and box_size.
C6_NoLogoIsIdentity ==
    logo_path = "None" =>
        /\ pc \in {"start", "save", "done", "failed"}
        /\ pc = "failed" => box_size <= 0
        /\ img.layers = <<>>
        /\ pc \in {"save", "done"} => img = symbol
        /\ pc = "done" => file.written
        /\ file.written => file.image = symbol

C6_Witness ==
    /\ logo_path = "None"
    /\ pc = "done"
    /\ box_size > 1
    /\ file.written
    /\ file.image.size[1] > 0

\* C7: the plate offset is the floor of half the difference of symbol and
\* plate on each axis, less than one pixel from the true centre, also when the
\* plate is larger than the symbol.
C7_PlateCenteredByFloor ==
    BboxMade =>
        \A a \in Axes :
            LET d == img.size[a] - bbox[a]
            IN  /\ 2 * bbox_position[a] <= d
                /\ d < 2 * bbox_position[a] + 2
                /\ Abs(2 * bbox_position[a] - d) < 2

C7_Witness ==
    /\ BboxMade
    /\ bbox[1] > img.size[1]
    /\ (img.size[1] - bbox[1]) % 2 = 1
    /\ bbox_position[1] < 0
    /\ bbox[2] < img.size[2]
    /\ (img.size[2] - bbox[2]) % 2 = 1

\* C8: each plate dimension is the smallest multiple of box_size that is not
\* less than floor(1.05 * logo_dim).
C8_PlateIsCeilingOfMargin ==
    (BboxMade /\ box_size > 0) =>
        \A a \in Axes :
            LET m == (105 * logo[a]) \div 100
            IN  /\ bbox[a] % box_size = 0
                /\ bbox[a] >= m
                /\ bbox[a] - box_size < m

\* C9: every pasted logo rectangle lies inside a backing box pasted before it.
LayerInside(l, p) ==
    \A a \in Axes : /\ p.pos[a] <= l.pos[a]
                    /\ l.pos[a] + l.size[a] <= p.pos[a] + p.size[a]

C9_LogoInsidePlate ==
    \A i \in 1 .. Len(img.layers) :
        img.layers[i].kind = "logo" =>
            \E j \in 1 .. (i - 1) :
                /\ img.layers[j].kind = "bbox"
                /\ LayerInside(img.layers[i], img.layers[j])

C9_Witness ==
    /\ pc = "done"
    /\ Len(file.image.layers) = 2
    /\ file.image.layers[2].kind = "logo"
    /\ file.image.layers[2].size # logo_file
    /\ file.image.layers[2].size[1] > file.image.layers[2].size[2]
    /\ box_size > 1

\* C10 as stated: for every logo_size in (0,1] the plate is no larger than the
\* symbol on each axis and its offset is never negative.
C10_PlateFitsSymbol ==
    BboxMade =>
        \A a \in Axes : bbox[a] <= img.size[a] /\ bbox_position[a] >= 0

\* C10 amended: the plate fits on an axis exactly when floor(1.05 * logo_dim)
\* is less than the symbol's side, which is the case for every logo when
\* logo_size <= 0.95; the offset is negative exactly when the plate does not fit.
C10_PlateFitsUpTo95Percent ==
    BboxMade =>
        \A a \in Axes :
            /\ (bbox[a] <= img.size[a]) <=> ((105 * logo[a]) \div 100 < img.size[a])
            /\ logo_size <= 95 => bbox[a] <= img.size[a]
            /\ (bbox_position[a] >= 0) <=> (bbox[a] <= img.size[a])

C10_Witness ==
    /\ BboxMade
    /\ logo_size = 95
    /\ logo[1] = logo_max_size
    /\ bbox[1] = img.size[1]
    /\ bbox_position[1] = 0

=============================================================================
